---- MODULE Spec2Model ----
(***************************************************************************)
(* A model of SEC.py: the name -> ticker -> CIK resolution, the XBRL       *)
(* company-concept fetch with its 10-K / FY / full-year filter and its     *)
(* de-duplication, the yearly join with its unit scaling, and the          *)
(* Streamlit script with its session state.                                *)
(*                                                                         *)
(* Python str values are sequences of one-character strings, so that       *)
(* upper(), strip(), zfill(), the substring test, strptime and the         *)
(* ordering of strings are computed and not assumed.  A Python dict is a   *)
(* TLA+ record whose DOMAIN is the dict's key set, so a missing key is a   *)
(* missing field.  Money is counted in units of 10^6 USD (TLC's integers   *)
(* are 32 bits wide).                                                      *)
(***************************************************************************)
EXTENDS Integers, Sequences, FiniteSets, TLC

VARIABLES
    pc,          \* position of the operation under study: "call" | "done" | "app"
    request,     \* the inputs of the pure operation being applied
    result,      \* what the operation returned (or that it raised)
    session,     \* st.session_state: matched_tickers, selected_ticker
    ui,          \* what the last script run rendered, and the widget values
    run          \* the record of the last script run of the Streamlit app

vars == <<pc, request, result, session, ui, run>>

(***************************************************************************)
(* Bounds of the model.                                                    *)
(***************************************************************************)
MaxFacts == 3
MaxRecords == 3
MaxEntities == 3

(***************************************************************************)
(* Python str.                                                             *)
(***************************************************************************)
\* The characters in use, in code-point order.
Alphabet ==
    << " ", "-", ".",
       "0", "1", "2", "3", "4", "5", "6", "7", "8", "9",
       "A", "B", "C", "D", "E", "F", "G", "H", "I", "J", "K", "L", "M",
       "N", "O", "P", "Q", "R", "S", "T", "U", "V", "W", "X", "Y", "Z",
       "a", "b", "c", "d", "e", "f", "g", "h", "i", "j", "k", "l", "m",
       "n", "o", "p", "q", "r", "s", "t", "u", "v", "w", "x", "y", "z" >>

Digits == <<"0", "1", "2", "3", "4", "5", "6", "7", "8", "9">>

UpperLetters == SubSeq(Alphabet, 14, 39)

LowerLetters == SubSeq(Alphabet, 40, 65)

Range(s) == {s[i] : i \in DOMAIN s}

IndexOf(c, s) == CHOOSE i \in DOMAIN s : s[i] = c

\* ord(c), up to the order it induces
Ord(c) == IndexOf(c, Alphabet)

IsDigit(c) == c \in Range(Digits)

DigitVal(c) == IndexOf(c, Digits) - 1

UpperChar(c) == IF c \in Range(LowerLetters) THEN UpperLetters[IndexOf(c, LowerLetters)] ELSE c

LowerChar(c) == IF c \in Range(UpperLetters) THEN LowerLetters[IndexOf(c, UpperLetters)] ELSE c

\* str.upper()
Upper(s) == [i \in DOMAIN s |-> UpperChar(s[i])]

\* str.lower()
Lower(s) == [i \in DOMAIN s |-> LowerChar(s[i])]

RECURSIVE LStrip(_)
LStrip(s) == IF s # <<>> /\ Head(s) = " " THEN LStrip(Tail(s)) ELSE s

RECURSIVE RStrip(_)
RStrip(s) == IF s # <<>> /\ s[Len(s)] = " " THEN RStrip(SubSeq(s, 1, Len(s) - 1)) ELSE s

\* str.strip()
Strip(s) == RStrip(LStrip(s))

\* str.startswith(p)
StartsWith(s, p) == Len(p) <= Len(s) /\ SubSeq(s, 1, Len(p)) = p

\* the operator `p in s` on two str
Contains(s, p) == \E i \in 0..(Len(s) - Len(p)) : SubSeq(s, i + 1, i + Len(p)) = p

RECURSIVE Zeros(_)
Zeros(n) == IF n <= 0 THEN <<>> ELSE <<"0">> \o Zeros(n - 1)

\* str.zfill(width): pads on the left, after a leading sign, and never cuts
ZFill(s, width) ==
    IF Len(s) >= width THEN s
    ELSE IF s # <<>> /\ Head(s) \in {"+", "-"}
         THEN <<Head(s)>> \o Zeros(width - Len(s)) \o Tail(s)
         ELSE Zeros(width - Len(s)) \o s

RECURSIVE IntToText(_)
\* str(n) of an int n >= 0
IntToText(n) == IF n < 10 THEN <<Digits[n + 1]>> ELSE IntToText(n \div 10) \o <<Digits[(n % 10) + 1]>>

RECURSIVE TextLess(_, _)
\* a < b on two str: lexicographic by code point
TextLess(a, b) ==
    IF b = <<>> THEN FALSE
    ELSE IF a = <<>> THEN TRUE
    ELSE IF Head(a) = Head(b) THEN TextLess(Tail(a), Tail(b))
    ELSE Ord(Head(a)) < Ord(Head(b))

\* s[:n], n of either sign
Take(s, n) ==
    IF n >= 0 THEN SubSeq(s, 1, IF n < Len(s) THEN n ELSE Len(s))
    ELSE SubSeq(s, 1, Len(s) + n)

(***************************************************************************)
(* datetime.strptime(text, "%Y-%m-%d") and the difference of two dates.    *)
(***************************************************************************)
NoDate == [ok |-> FALSE, y |-> 0, m |-> 0, d |-> 0]

IsLeap(y) == y % 4 = 0 /\ (y % 100 # 0 \/ y % 400 = 0)

DaysInMonth(y, m) ==
    IF m = 2 THEN (IF IsLeap(y) THEN 29 ELSE 28)
    ELSE IF m \in {4, 6, 9, 11} THEN 30 ELSE 31

\* %m: 1[0-2] | 0[1-9] | [1-9];  0 when the text is no month
MonthOf(t) ==
    IF Len(t) = 1 /\ IsDigit(t[1]) /\ t[1] # "0" THEN DigitVal(t[1])
    ELSE IF Len(t) = 2 /\ t[1] = "1" /\ t[2] \in {"0", "1", "2"} THEN 10 + DigitVal(t[2])
    ELSE IF Len(t) = 2 /\ t[1] = "0" /\ IsDigit(t[2]) /\ t[2] # "0" THEN DigitVal(t[2])
    ELSE 0

\* %d: 3[0-1] | [1-2]\d | 0[1-9] | [1-9] | " "[1-9];  0 when the text is no day
DayOf(t) ==
    IF Len(t) = 1 /\ IsDigit(t[1]) /\ t[1] # "0" THEN DigitVal(t[1])
    ELSE IF Len(t) = 2 /\ t[1] = "3" /\ t[2] \in {"0", "1"} THEN 30 + DigitVal(t[2])
    ELSE IF Len(t) = 2 /\ t[1] \in {"1", "2"} /\ IsDigit(t[2]) THEN 10 * DigitVal(t[1]) + DigitVal(t[2])
    ELSE IF Len(t) = 2 /\ t[1] \in {"0", " "} /\ IsDigit(t[2]) /\ t[2] # "0" THEN DigitVal(t[2])
    ELSE 0

\* %Y: exactly four digits
YearOf(t) == 1000 * DigitVal(t[1]) + 100 * DigitVal(t[2]) + 10 * DigitVal(t[3]) + DigitVal(t[4])

\* datetime.strptime(t, "%Y-%m-%d"); ok = FALSE stands for the ValueError
Strptime(t) ==
    IF /\ Len(t) >= 8
       /\ \A i \in 1..4 : IsDigit(t[i])
       /\ t[5] = "-"
       /\ \E j \in {7, 8} : j < Len(t) /\ t[j] = "-"
    THEN LET j == IF t[7] = "-" THEN 7 ELSE 8
             y == YearOf(t)
             m == MonthOf(SubSeq(t, 6, j - 1))
             d == DayOf(SubSeq(t, j + 1, Len(t)))
         IN  IF y >= 1 /\ m >= 1 /\ d >= 1 /\ d <= DaysInMonth(y, m)
             THEN [ok |-> TRUE, y |-> y, m |-> m, d |-> d]
             ELSE NoDate
    ELSE NoDate

RECURSIVE DaysBeforeMonth(_, _)
DaysBeforeMonth(y, m) == IF m <= 1 THEN 0 ELSE DaysBeforeMonth(y, m - 1) + DaysInMonth(y, m - 1)

\* date.toordinal()
Ordinal(dt) ==
    LET p == dt.y - 1
    IN  365 * p + (p \div 4) - (p \div 100) + (p \div 400) + DaysBeforeMonth(dt.y, dt.m) + dt.d

(***************************************************************************)
(* 3) get_financial_data                                                   *)
(***************************************************************************)
DefaultFetchCount == 30
DefaultFinalCount == 10
FullYearDays == 300
StatusOK == 200

Has(u, k) == k \in DOMAIN u

\* is_full_year with > for >=
is_full_year_strict(item) ==
    IF Has(item, "start") /\ Has(item, "end")
    THEN LET start_date == Strptime(item.start)
             end_date == Strptime(item.end)
         IN  start_date.ok /\ end_date.ok
             /\ Ordinal(end_date) - Ordinal(start_date) > FullYearDays
    ELSE FALSE

\* is_full_year: the bare except turns a missing key and a malformed date into False
is_full_year(item) ==
    IF Has(item, "start") /\ Has(item, "end")
    THEN LET start_date == Strptime(item.start)
             end_date == Strptime(item.end)
         IN  start_date.ok /\ end_date.ok
             /\ Ordinal(end_date) - Ordinal(start_date) >= FullYearDays
    ELSE FALSE

\* the condition of the list comprehension ten_k_units
IsTenK(u) ==
    /\ Has(u, "form") /\ u.form = "10-K"
    /\ Has(u, "fp") /\ u.fp = "FY"
    /\ is_full_year(u)

\* ten_k_units = [u for u in units if ...]
TenKUnits(units) == SelectSeq(units, IsTenK)

\* x.get("end", ""), the sort key
EndKey(x) == IF Has(x, "end") THEN x.end ELSE <<>>

RECURSIVE InsertDesc(_, _)
\* x goes behind every element whose key is >= its own: the sort is stable
InsertDesc(s, x) ==
    IF s = <<>> THEN <<x>>
    ELSE IF TextLess(EndKey(Head(s)), EndKey(x)) THEN <<x>> \o s
    ELSE <<Head(s)>> \o InsertDesc(Tail(s), x)

RECURSIVE SortDesc(_)
\* sorted(s, key=lambda x: x.get("end", ""), reverse=True)
SortDesc(s) == IF s = <<>> THEN <<>> ELSE InsertDesc(SortDesc(SubSeq(s, 1, Len(s) - 1)), s[Len(s)])

SortedUnits(ten_k_units, fetch_count) == Take(SortDesc(ten_k_units), fetch_count)

StartEnd(item) == <<item.start, item.end>>

RECURSIVE UniqueLoopKeepAll(_, _, _, _)
\* the loop without the test on seen
UniqueLoopKeepAll(items, unique_records, seen, final_count) ==
    IF items = <<>> THEN unique_records
    ELSE LET item == Head(items)
             uniq == Append(unique_records, item)
         IN  IF Len(uniq) = final_count THEN uniq
             ELSE UniqueLoopKeepAll(Tail(items), uniq, seen, final_count)

RECURSIVE UniqueLoop(_, _, _, _)
\* the loop over sorted_units: the break is tested after the append
UniqueLoop(items, unique_records, seen, final_count) ==
    IF items = <<>> THEN unique_records
    ELSE LET item == Head(items)
             fresh == StartEnd(item) \notin seen
             uniq == IF fresh THEN Append(unique_records, item) ELSE unique_records
             seen2 == IF fresh THEN seen \cup {StartEnd(item)} ELSE seen
         IN  IF Len(uniq) = final_count THEN uniq
             ELSE UniqueLoop(Tail(items), uniq, seen2, final_count)

UniqueRecords(sorted_units, final_count) == UniqueLoop(sorted_units, <<>>, {}, final_count)

\* The three shapes of what a call gives back.
Records(recs) == [kind |-> "records", records |-> recs, error |-> "None"]

Error(msg) == [kind |-> "error", records |-> <<>>, error |-> msg]

Raised(what) == [kind |-> "raised", records |-> <<>>, error |-> what]

\* get_financial_data(cik, concept, ua, fetch_count, final_count) on the response resp
get_financial_data(resp, fetch_count, final_count) ==
    IF resp.status # StatusOK THEN Error("Request failed")
    ELSE IF ~resp.json THEN Raised("JSONDecodeError")
    ELSE IF ~(Has(resp.data, "units") /\ Has(resp.data.units, "USD")) THEN Error("USD unit not found")
    ELSE LET units == resp.data.units.USD
             ten_k_units == TenKUnits(units)
         IN  IF units = <<>> THEN Error("No (USD) data found")
             ELSE IF ten_k_units = <<>> THEN Error("No 10-K full-year data found")
             ELSE Records(UniqueRecords(SortedUnits(ten_k_units, fetch_count), final_count))

(***************************************************************************)
(* The inputs of get_financial_data: facts as the company-concept API      *)
(* lists them under units.USD, and the responses that carry them.          *)
(***************************************************************************)
SeqsUpTo(S, n) == UNION {[1..k -> S] : k \in 0..n}

Min(a, b) == IF a <= b THEN a ELSE b

\* a date as the API writes it: YYYY-MM-DD
IsoDate(y, m, d) == ZFill(IntToText(y), 4) \o <<"-">> \o ZFill(IntToText(m), 2) \o <<"-">> \o ZFill(IntToText(d), 2)

Fact(start, end, val, form, fp) == [start |-> start, end |-> end, val |-> val, form |-> form, fp |-> fp]

FY2020 == Fact(IsoDate(2020, 1, 1), IsoDate(2020, 12, 31), 100, "10-K", "FY")

\* the same period reported again by a later filing
FY2020Again == Fact(IsoDate(2020, 1, 1), IsoDate(2020, 12, 31), 101, "10-K", "FY")

\* the same end, another start
FY2020Late == Fact(IsoDate(2020, 1, 5), IsoDate(2020, 12, 31), 102, "10-K", "FY")

FY2021 == Fact(IsoDate(2021, 1, 1), IsoDate(2021, 12, 31), 110, "10-K", "FY")

\* dates strptime accepts although they are not zero-padded: 2020-10-1 .. 2021-9-30
FYSept2021 ==
    Fact(<<"2", "0", "2", "0", "-", "1", "0", "-", "1">>,
         <<"2", "0", "2", "1", "-", "9", "-", "3", "0">>, 120, "10-K", "FY")

Days299 == Fact(IsoDate(2020, 1, 1), IsoDate(2020, 10, 26), 130, "10-K", "FY")

Days300 == Fact(IsoDate(2020, 1, 1), IsoDate(2020, 10, 27), 131, "10-K", "FY")

QuarterlyForm == Fact(IsoDate(2021, 1, 1), IsoDate(2021, 12, 31), 140, "10-Q", "FY")

QuarterPeriod == Fact(IsoDate(2019, 1, 1), IsoDate(2019, 12, 31), 141, "10-K", "Q4")

NoStart == [end |-> IsoDate(2022, 12, 31), val |-> 150, form |-> "10-K", fp |-> "FY"]

NoForm == [start |-> IsoDate(2018, 1, 1), end |-> IsoDate(2018, 12, 31), val |-> 151, fp |-> "FY"]

\* 30 February
BadEnd == Fact(IsoDate(2021, 1, 1), IsoDate(2021, 2, 30), 152, "10-K", "FY")

SeriesPool == {FY2020, FY2020Again, FY2020Late, FY2021, FYSept2021, QuarterlyForm}

FilterPool == {FY2020, Days299, Days300, QuarterlyForm, QuarterPeriod, NoStart, NoForm, BadEnd}

Response(status, json, data) == [status |-> status, json |-> json, data |-> data]

NoData == [tag |-> "none"]

UsdResponse(units) == Response(StatusOK, TRUE, [tag |-> "concept", units |-> [USD |-> units]])

FailedResponses ==
    { Response(404, FALSE, NoData),
      Response(StatusOK, FALSE, NoData),
      Response(StatusOK, TRUE, [tag |-> "concept"]),
      Response(StatusOK, TRUE, [tag |-> "concept", units |-> [shares |-> <<>>]]) }

Responses(pool) == FailedResponses \cup {UsdResponse(us) : us \in SeqsUpTo(pool, MaxFacts)}

\* the values tried for fetch_count and final_count
CountValues == 0..MaxFacts

(***************************************************************************)
(* The state of the Streamlit script while a single function is studied.   *)
(***************************************************************************)
None == [isNone |-> TRUE, val |-> <<>>]

Some(v) == [isNone |-> FALSE, val |-> v]

\* lines 148-151
FreshSession == [matched_tickers |-> None, selected_ticker |-> None]

NoUi == [mode |-> "Company Name", shown |-> {}, options |-> <<>>, index |-> 0]

NoRun == [action |-> "none", outcome |-> "none", handed |-> {}]

NoResult == [kind |-> "none", records |-> <<>>, error |-> "None"]

AppIdle == session = FreshSession /\ ui = NoUi /\ run = NoRun

(***************************************************************************)
(* SpecFetch, SpecFilter: get_financial_data applied to every input.       *)
(***************************************************************************)
FetchRequest(resp, fetch_count, final_count) ==
    [op |-> "get_financial_data", resp |-> resp, fetch_count |-> fetch_count, final_count |-> final_count]

InitFetch ==
    /\ pc = "call"
    /\ request \in {FetchRequest(r, fc, n) : r \in Responses(SeriesPool), fc \in CountValues, n \in CountValues}
    /\ result = NoResult
    /\ AppIdle

InitFilter ==
    /\ pc = "call"
    /\ request \in {FetchRequest(r, DefaultFetchCount, DefaultFinalCount) : r \in Responses(FilterPool)}
    /\ result = NoResult
    /\ AppIdle

CallGetFinancialData ==
    /\ pc = "call"
    /\ request.op = "get_financial_data"
    /\ result' = get_financial_data(request.resp, request.fetch_count, request.final_count)
    /\ pc' = "done"
    /\ UNCHANGED <<request, session, ui, run>>

SpecFetch == InitFetch /\ [][CallGetFinancialData]_vars

SpecFilter == InitFilter /\ [][CallGetFinancialData]_vars

(***************************************************************************)
(* Vocabulary of the statements about get_financial_data.                  *)
(***************************************************************************)
IsUsdResponse(resp) ==
    resp.status = StatusOK /\ resp.json /\ Has(resp.data, "units") /\ Has(resp.data.units, "USD")

\* the raw USD facts of the request, none when the response carries none
RawFacts == IF IsUsdResponse(request.resp) THEN request.resp.data.units.USD ELSE <<>>

WellDated(u) == Has(u, "start") /\ Has(u, "end") /\ Strptime(u.start).ok /\ Strptime(u.end).ok

SpanDays(u) == Ordinal(Strptime(u.end)) - Ordinal(Strptime(u.start))

\* a 10-K, FY fact spanning at least 300 days
Qualifies(u) ==
    /\ Has(u, "form") /\ u.form = "10-K"
    /\ Has(u, "fp") /\ u.fp = "FY"
    /\ WellDated(u) /\ SpanDays(u) >= 300

Pairs(s) == {<<s[i].start, s[i].end>> : i \in DOMAIN s}

\* N raw facts, all qualifying, with K < N distinct (start, end) pairs
DuplicatedFacts ==
    /\ RawFacts # <<>>
    /\ \A i \in DOMAIN RawFacts : Qualifies(RawFacts[i])
    /\ Cardinality(Pairs(RawFacts)) < Len(RawFacts)

Returned == pc = "done" /\ result.kind = "records"

C5_AnnualFilter ==
    (pc = "done" /\ RawFacts # <<>>) =>
        LET kept == {RawFacts[i] : i \in {j \in DOMAIN RawFacts : Qualifies(RawFacts[j])}}
        IN  /\ kept = {} => result.kind = "error"
            /\ kept # {} => result.kind = "records" /\ Range(result.records) = kept
            /\ Days299 \notin Range(result.records)
            /\ Days300 \in Range(RawFacts) => Days300 \in Range(result.records)
            /\ {NoStart, BadEnd} \cap Range(result.records) = {}

C5_Witness ==
    /\ pc = "done"
    /\ {Days299, Days300, BadEnd} \subseteq Range(RawFacts)
    /\ result.kind = "records"
    /\ result.records = <<Days300>>

\* C6 as stated: every call returns records (a non-empty list) or an error, and
\* an error exactly when the status is not success, the USD unit is missing or
\* empty, or no fact passes the filter.
C6_TwoValued ==
    pc = "done" =>
        LET failing == \/ request.resp.status # StatusOK
                       \/ ~IsUsdResponse(request.resp)
                       \/ RawFacts = <<>>
                       \/ \A i \in DOMAIN RawFacts : ~Qualifies(RawFacts[i])
        IN  /\ result.kind \in {"records", "error"}
            /\ result.kind = "records" => result.records # <<>>
            /\ result.kind = "error" <=> failing

\* the end dates, most recent first
EndsDescending(s) ==
    \A i, j \in DOMAIN s : i < j => Ordinal(Strptime(s[i].end)) >= Ordinal(Strptime(s[j].end))

\* C7 as stated: the returned list has one record per (start, end) pair, at
\* most final_count records, and is ordered by end date, most recent first.
C7_SeriesInvariant ==
    Returned =>
        /\ Cardinality(Pairs(result.records)) = Len(result.records)
        /\ Len(result.records) <= request.final_count
        /\ EndsDescending(result.records)

(***************************************************************************)
(* 4) The script's "Prepare data" block: the yearly sums, the inner join   *)
(* and the unit scaling (the same text in the three lookup modes).         *)
(***************************************************************************)
\* 1e12 and 1e9, in units of 10^6 USD
Trillion == 1000000
Billion == 1000

\* datetime.strptime(item["end"], "%Y-%m-%d").year
EndYear(item) == Strptime(item.end).y

RECURSIVE SortAsc(_)
\* the elements of a set of numbers, ascending
SortAsc(S) == IF S = {} THEN <<>> ELSE LET lo == CHOOSE x \in S : \A y \in S : x <= y IN <<lo>> \o SortAsc(S \ {lo})

RECURSIVE SumOfYear(_, _)
\* the sum of val over the records of data that end in year
SumOfYear(data, year) ==
    IF data = <<>> THEN 0
    ELSE (IF EndYear(Head(data)) = year THEN Head(data).val ELSE 0) + SumOfYear(Tail(data), year)

\* pd.DataFrame([{Year, <col>: val}, ...]).groupby("Year", as_index=False).sum():
\* one row per year, the years ascending
GroupByYearSum(data) ==
    LET years == SortAsc({EndYear(data[i]) : i \in DOMAIN data})
    IN  [i \in DOMAIN years |-> [Year |-> years[i], Value |-> SumOfYear(data, years[i])]]

ValueOfYear(df, year) == (CHOOSE r \in Range(df) : r.Year = year).Value

RECURSIVE MergeLeft(_, _)
\* how="left", a missing net income shown as 0
MergeLeft(df_rev, df_ni) ==
    IF df_rev = <<>> THEN <<>>
    ELSE LET r == Head(df_rev)
             ni == IF \E n \in Range(df_ni) : n.Year = r.Year THEN ValueOfYear(df_ni, r.Year) ELSE 0
         IN  <<[Year |-> r.Year, Revenue |-> r.Value, NetIncome |-> ni]>> \o MergeLeft(Tail(df_rev), df_ni)

RECURSIVE MergeInner(_, _)
\* pd.merge(df_rev, df_ni, on="Year", how="inner"): the rows of the left frame
\* whose Year the right frame has, in the left frame's order
MergeInner(df_rev, df_ni) ==
    IF df_rev = <<>> THEN <<>>
    ELSE LET r == Head(df_rev)
             rest == MergeInner(Tail(df_rev), df_ni)
         IN  IF \E n \in Range(df_ni) : n.Year = r.Year
             THEN <<[Year |-> r.Year, Revenue |-> r.Value, NetIncome |-> ValueOfYear(df_ni, r.Year)]>> \o rest
             ELSE rest

RECURSIVE InsertByYear(_, _)
InsertByYear(df, row) ==
    IF df = <<>> THEN <<row>>
    ELSE IF row.Year < Head(df).Year THEN <<row>> \o df
    ELSE <<Head(df)>> \o InsertByYear(Tail(df), row)

RECURSIVE SortByYear(_)
\* df.sort_values("Year")
SortByYear(df) == IF df = <<>> THEN <<>> ELSE InsertByYear(SortByYear(SubSeq(df, 1, Len(df) - 1)), df[Len(df)])

\* df_combined of line 239
DfCombined(rev_data, ni_data) == SortByYear(MergeInner(GroupByYearSum(rev_data), GroupByYearSum(ni_data)))

Max(a, b) == IF a >= b THEN a ELSE b

SetMax(S) == CHOOSE x \in S : \A y \in S : x >= y

\* max(df["Revenue"].max(), df["NetIncome"].max()) >= 1e12; the maxima of an
\* empty frame are NaN, and NaN >= 1e12 is False
MaxValAtLeast(df_combined, bound) ==
    /\ df_combined # <<>>
    /\ Max(SetMax({r.Revenue : r \in Range(df_combined)}),
           SetMax({r.NetIncome : r \in Range(df_combined)})) >= bound

\* lines 242-247
UnitScale(df_combined) ==
    IF MaxValAtLeast(df_combined, Trillion)
    THEN [factor |-> Trillion, unit_label |-> "(in Trillions USD)"]
    ELSE [factor |-> Billion, unit_label |-> "(in Billions USD)"]

\* x / factor
Over(x, factor) == [num |-> x, den |-> factor]

\* lines 249-260: both columns divided by factor and renamed
Scaled(df_combined, scale) ==
    [columns |-> <<"Year", "Revenue " \o scale.unit_label, "NetIncome " \o scale.unit_label>>,
     rows |-> [i \in DOMAIN df_combined |->
                   <<df_combined[i].Year,
                     Over(df_combined[i].Revenue, scale.factor),
                     Over(df_combined[i].NetIncome, scale.factor)>>]]

Table(df, scale, table) == [kind |-> "table", df_combined |-> df, scale |-> scale, table |-> table]

\* lines 227-260 on the two fetched record lists; a DataFrame of no rows has no
\* "Year" column to group by
PrepareData(rev_data, ni_data) ==
    IF rev_data = <<>> \/ ni_data = <<>> THEN Raised("KeyError")
    ELSE LET df_combined == DfCombined(rev_data, ni_data)
             scale == UnitScale(df_combined)
         IN  Table(df_combined, scale, Scaled(df_combined, scale))

(***************************************************************************)
(* SpecCombine: the block applied to what get_financial_data returns under *)
(* its defaults for two concepts.                                          *)
(***************************************************************************)
FYear(year, val) == Fact(IsoDate(year, 1, 1), IsoDate(year, 12, 31), val, "10-K", "FY")

\* a second filing that ends in the year 2020
Rev2020Late == Fact(IsoDate(2020, 1, 5), IsoDate(2020, 12, 31), 600000, "10-K", "FY")

\* a fiscal year that ends in January 2022
Ni2022Jan == Fact(IsoDate(2021, 2, 1), IsoDate(2022, 1, 31), 30000, "10-K", "FY")

RevenuePool == {FYear(2020, 600000), Rev2020Late, FYear(2021, 50000), FYear(2022, 2000000), FYear(2023, 1000000)}

NetIncomePool == {FYear(2021, -2000000), FYear(2022, 50000), Ni2022Jan, FYear(2023, 999999)}

\* the record lists get_financial_data returns for the facts of pool
FetchedSeries(pool) ==
    LET got == {get_financial_data(UsdResponse(us), DefaultFetchCount, DefaultFinalCount) : us \in SeqsUpTo(pool, MaxRecords)}
    IN  {g.records : g \in {x \in got : x.kind = "records"}}

InitCombine ==
    /\ pc = "call"
    /\ request \in {[op |-> "prepare", rev_data |-> r, ni_data |-> n] :
                        r \in FetchedSeries(RevenuePool), n \in FetchedSeries(NetIncomePool)}
    /\ result = NoResult
    /\ AppIdle

CallPrepareData ==
    /\ pc = "call"
    /\ request.op = "prepare"
    /\ result' = PrepareData(request.rev_data, request.ni_data)
    /\ pc' = "done"
    /\ UNCHANGED <<request, session, ui, run>>

SpecCombine == InitCombine /\ [][CallPrepareData]_vars

Abs(x) == IF x < 0 THEN -x ELSE x

Combined == pc = "done" /\ result.kind = "table"

\* C2 as stated: the divisor follows the largest ABSOLUTE value of the two
\* combined columns: 10^12 and Trillions when it is >= 10^12, else 10^9 and
\* Billions, and both columns are divided by it.
C2_UnitScaling ==
    Combined =>
        LET df == result.df_combined
            big == \E r \in Range(df) : Abs(r.Revenue) >= Trillion \/ Abs(r.NetIncome) >= Trillion
            factor == IF big THEN Trillion ELSE Billion
            unit == IF big THEN "(in Trillions USD)" ELSE "(in Billions USD)"
        IN  /\ result.table.columns = <<"Year", "Revenue " \o unit, "NetIncome " \o unit>>
            /\ \A i \in DOMAIN df :
                   result.table.rows[i] = <<df[i].Year, Over(df[i].Revenue, factor), Over(df[i].NetIncome, factor)>>

YearsOf(data) == {Strptime(data[i].end).y : i \in DOMAIN data}

RECURSIVE TotalOver(_, _)
TotalOver(data, idx) ==
    IF idx = {} THEN 0
    ELSE LET i == CHOOSE j \in idx : TRUE IN data[i].val + TotalOver(data, idx \ {i})

TotalOfYear(data, year) == TotalOver(data, {i \in DOMAIN data : Strptime(data[i].end).y = year})

\* C8: the combined table has exactly one row for each year that both series
\* have, none for another year, its rows ascend by year, each row holds per
\* concept the sum of that concept's records ending in the year (shown divided
\* by the one factor), and with no common year the table is empty, not an error.
C8_JoinCorrect ==
    (pc = "done" /\ request.op = "prepare") =>
        LET common == YearsOf(request.rev_data) \cap YearsOf(request.ni_data)
            df == result.df_combined
            rows == result.table.rows
        IN  /\ result.kind = "table"
            /\ {df[i].Year : i \in DOMAIN df} = common
            /\ Len(df) = Cardinality(common)
            /\ \A i, j \in DOMAIN df : i < j => df[i].Year < df[j].Year
            /\ \A i \in DOMAIN df :
                   /\ df[i].Revenue = TotalOfYear(request.rev_data, df[i].Year)
                   /\ df[i].NetIncome = TotalOfYear(request.ni_data, df[i].Year)
            /\ Len(rows) = Len(df)
            /\ \A i \in DOMAIN rows :
                   /\ rows[i][1] = df[i].Year
                   /\ rows[i][2] = Over(df[i].Revenue, result.scale.factor)
                   /\ rows[i][3] = Over(df[i].NetIncome, result.scale.factor)
            /\ common = {} => rows = <<>>

\* revenue for 2021 and 2022 against net income for 2022 (two records) and 2023
C8_Witness ==
    /\ Combined
    /\ YearsOf(request.rev_data) = {2021, 2022}
    /\ YearsOf(request.ni_data) = {2022, 2023}
    /\ Len(request.ni_data) = 3
    /\ Len(result.df_combined) = 1
    /\ result.df_combined[1] = [Year |-> 2022, Revenue |-> 2000000, NetIncome |-> 80000]

(***************************************************************************)
(* 1) get_ticker_from_company_name and 2) get_cik_from_ticker              *)
(***************************************************************************)
Google == <<"g", "o", "o", "g", "l", "e">>

Nvidia == <<"n", "v", "i", "d", "i", "a">>

\* SYNONYMS, lines 11-15
SYNONYMS == [k \in {Google, Nvidia} |-> IF k = Google THEN <<"a", "l", "p", "h", "a", "b", "e", "t", " ", "i", "n", "c">> ELSE <<"n", "v", "i", "d", "i", "a", " ", "c", "o", "r", "p", "o", "r", "a", "t", "i", "o", "n">>]

\* lines 28-30
Substituted(company_name) ==
    LET name_lower == Strip(Lower(company_name))
    IN  IF name_lower \in DOMAIN SYNONYMS THEN SYNONYMS[name_lower] ELSE company_name

\* lines 46-47
NameMatches(name_upper, info) == Contains(Upper(info.title), name_upper)

RECURSIVE MatchedTickers(_, _)
\* lines 44-48: data.items() in the document's order
MatchedTickers(name_upper, entries) ==
    IF entries = <<>> THEN <<>>
    ELSE (IF NameMatches(name_upper, Head(entries)) THEN <<Head(entries).ticker>> ELSE <<>>)
         \o MatchedTickers(name_upper, Tail(entries))

Returns(v) == [kind |-> "value", value |-> v, error |-> "None"]

Raises(what) == [kind |-> "raised", value |-> <<>>, error |-> what]

\* get_ticker_from_company_name(company_name, user_agent) on the response resp
get_ticker_from_company_name(company_name, resp) ==
    IF resp.status # StatusOK THEN Returns(<<>>)
    ELSE IF ~resp.json THEN Raises("JSONDecodeError")
    ELSE Returns(MatchedTickers(Strip(Upper(Substituted(company_name))), resp.data))

CikWidth == 10

CikPrefix == <<"C", "I", "K">>

\* line 72
TickerEquals(t_upper, info) == Upper(info.ticker) = t_upper

\* lines 73-74
CikOf(info) == CikPrefix \o ZFill(IntToText(info.cik_str), CikWidth)

RECURSIVE FirstCik(_, _)
\* lines 71-75
FirstCik(t_upper, entries) ==
    IF entries = <<>> THEN <<>>
    ELSE IF TickerEquals(t_upper, Head(entries)) THEN CikOf(Head(entries))
    ELSE FirstCik(t_upper, Tail(entries))

\* get_cik_from_ticker(ticker, user_agent) on the response resp
get_cik_from_ticker(ticker, resp) ==
    IF resp.status # StatusOK THEN Returns(<<>>)
    ELSE IF ~resp.json THEN Raises("JSONDecodeError")
    ELSE Returns(FirstCik(Strip(Upper(ticker)), resp.data))

(***************************************************************************)
(* company_tickers.json: the entity snapshot, and the names asked for.     *)
(***************************************************************************)
Entity(cik_str, ticker, title) == [cik_str |-> cik_str, ticker |-> ticker, title |-> title]

Apple == Entity(320193, <<"A", "A", "P", "L">>, <<"A", "p", "p", "l", "e", " ", "I", "n", "c", ".">>)

AlphabetA == Entity(1652044, <<"G", "O", "O", "G", "L">>, <<"A", "l", "p", "h", "a", "b", "e", "t", " ", "I", "n", "c", ".">>)

AlphabetC == Entity(1652044, <<"G", "O", "O", "G">>, <<"A", "l", "p", "h", "a", "b", "e", "t", " ", "I", "n", "c", ".">>)

NvidiaCorp == Entity(1045810, <<"N", "V", "D", "A">>, <<"N", "V", "I", "D", "I", "A", " ", "C", "O", "R", "P">>)

Pineapple == Entity(22701, <<"P", "A", "P", "L">>, <<"P", "i", "n", "e", "a", "p", "p", "l", "e", " ", "I", "n", "c", ".">>)

EntityPool == {Apple, AlphabetA, AlphabetC, NvidiaCorp, Pineapple}

SnapshotResponses ==
    { Response(404, FALSE, <<>>), Response(StatusOK, FALSE, <<>>) }
    \cup {Response(StatusOK, TRUE, es) : es \in SeqsUpTo(EntityPool, MaxEntities)}

CompanyNames ==
    { <<"A", "p", "p", "l", "e">>, <<" ", "a", "p", "p", "l", "e", " ">>, <<"G", "o", "o", "g", "l", "e", " ">>, <<"G", "O", "O", "G", "L", "E">>, <<"n", "v", "i", "d", "i", "a">>,
      <<"N", "v", "i", "d", "i", "a", " ", "C", "o", "r", "p">>, <<"i", "n", "c">>, <<"a", "l", "p", "h", "a", "b", "e", "t">>, <<"x", "y", "z">>, <<" ">> }

(***************************************************************************)
(* SpecResolve: get_ticker_from_company_name applied to every name and     *)
(* every snapshot response.                                                *)
(***************************************************************************)
InitResolve ==
    /\ pc = "call"
    /\ request \in {[op |-> "get_ticker_from_company_name", company_name |-> q, resp |-> r] :
                        q \in CompanyNames, r \in SnapshotResponses}
    /\ result = NoResult
    /\ AppIdle

CallGetTickerFromCompanyName ==
    /\ pc = "call"
    /\ request.op = "get_ticker_from_company_name"
    /\ result' = get_ticker_from_company_name(request.company_name, request.resp)
    /\ pc' = "done"
    /\ UNCHANGED <<request, session, ui, run>>

SpecResolve == InitResolve /\ [][CallGetTickerFromCompanyName]_vars

\* the query a name stands for: its synonym when the lower-cased trimmed name
\* has one, itself otherwise; upper-cased and trimmed
QueryOf(q) ==
    LET key == Strip(Lower(q))
        name == IF key = Google THEN <<"a", "l", "p", "h", "a", "b", "e", "t", " ", "i", "n", "c">>
                ELSE IF key = Nvidia THEN <<"n", "v", "i", "d", "i", "a", " ", "c", "o", "r", "p", "o", "r", "a", "t", "i", "o", "n">>
                ELSE q
    IN  Strip(Upper(name))

IsSubstring(p, s) == \E i \in 1..(Len(s) + 1) : \E j \in (i - 1)..Len(s) : SubSeq(s, i, j) = p

Loaded(resp) == resp.status = StatusOK /\ resp.json

\* the tickers of the records of a loaded snapshot whose title holds the query
TitleMatches(q, resp) ==
    LET hit == {i \in DOMAIN resp.data : IsSubstring(QueryOf(q), Upper(resp.data[i].title))}
    IN  [k \in 1..Cardinality(hit) |->
            resp.data[CHOOSE i \in hit : Cardinality({j \in hit : j <= i}) = k].ticker]

\* C3 as stated: the call returns exactly the tickers of the records whose
\* upper-cased title contains the upper-cased trimmed query after synonym
\* substitution, and the empty list when the snapshot cannot be loaded.
C3_NameResolution ==
    pc = "done" =>
        /\ result.kind = "value"
        /\ Loaded(request.resp) => result.value = TitleMatches(request.company_name, request.resp)
        /\ ~Loaded(request.resp) => result.value = <<>>

\* The part of C3 that the code keeps: a snapshot that loads is searched as
\* stated, and a status other than 200 gives the empty list.
ResolvesWhenLoaded ==
    pc = "done" =>
        /\ Loaded(request.resp) =>
               result = Returns(TitleMatches(request.company_name, request.resp))
        /\ request.resp.status # StatusOK => result = Returns(<<>>)

ResolvesWhenLoaded_Witness ==
    /\ pc = "done"
    /\ request.company_name = <<"G", "o", "o", "g", "l", "e", " ">>
    /\ request.resp.status = StatusOK /\ request.resp.json
    /\ request.resp.data = <<Apple, AlphabetA, AlphabetC>>
    /\ result = Returns(<<<<"G", "O", "O", "G", "L">>, <<"G", "O", "O", "G">>>>)

(***************************************************************************)
(* 4) The Streamlit script.  Every user event (a widget edited, a button   *)
(* pressed) runs the script once, top to bottom; st.stop() ends the run.   *)
(* ui holds what the run rendered: a button can only be pressed, and the   *)
(* selectbox only keeps its choice, when the last run rendered it.         *)
(***************************************************************************)
Modes == {"Company Name", "Ticker", "CIK"}

Truthy(v) == ~v.isNone /\ v.val # <<>>

\* the text inputs: the User-Agent, a ticker, a CIK
UserAgents == {<<>>, <<"M", "y", "A", "p", "p">>}

TickerInputs == {<<"A", "A", "P", "L">>, <<" ", "a", "a", "p", "l", " ">>, <<"G", "O", "O", "G">>, <<"P", "A", "P", "L">>, <<"Z", "Z", "Z">>, <<" ">>}

CikInputs == {<<"0", "0", "0", "0", "3", "2", "0", "1", "9", "3">>, <<"3", "2", "0", "1", "9", "3">>, <<" ", "3", "2", "0", "1", "9", "3", " ">>, <<"C", "I", "K", "0", "0", "0", "0", "3", "2", "0", "1", "9", "3">>, <<"C", "I", "K", "3", "2", "0", "1", "9", "3">>, <<>>}

\* what the two concept requests of a run may be answered
RevenueOutcomes ==
    {get_financial_data(r, DefaultFetchCount, DefaultFinalCount) :
        r \in FailedResponses \cup { UsdResponse(<<QuarterlyForm>>),
                                     UsdResponse(<<FYear(2021, 50000), FYear(2022, 2000000)>>),
                                     UsdResponse(<<FYear(2020, 600000)>>) }}

NetIncomeOutcomes ==
    {get_financial_data(r, DefaultFetchCount, DefaultFinalCount) :
        r \in FailedResponses \cup { UsdResponse(<<FYear(2021, -2000000)>>),
                                     UsdResponse(<<FYear(2023, 999999)>>) }}

\* the snapshot responses of a session
AppSnapshots ==
    { Response(404, FALSE, <<>>), Response(StatusOK, FALSE, <<>>) }
    \cup {Response(StatusOK, TRUE, es) : es \in SeqsUpTo({Apple, AlphabetA, Pineapple}, MaxEntities)}

\* what get_cik_from_ticker may return for a ticker, over the snapshot responses
CikLookups ==
    [ticker \in TickerInputs \cup {e.ticker : e \in EntityPool} |->
        {get_cik_from_ticker(ticker, r) : r \in AppSnapshots}]

\* what get_ticker_from_company_name may return for a name
TickerLookups == [company_name \in CompanyNames |-> {get_ticker_from_company_name(company_name, r) : r \in AppSnapshots}]

Stopped == {"stop_user_agent", "stop_empty_input", "stop_no_matches", "stop_no_ticker", "stop_no_cik", "stop_fetch_error"}

Ran(sess, outcome, handed, res) == [session |-> sess, outcome |-> outcome, handed |-> handed, result |-> res]

Shown(outcome, res) == [outcome |-> outcome, result |-> res]

\* the two get_financial_data calls, the error checks and the table:
\* lines 216-263, 313-359, 402-448
FetchBoth(rev, ni) ==
    IF rev.kind = "raised" \/ ni.kind = "raised" THEN Shown("exception", NoResult)
    ELSE IF rev.kind = "error" \/ ni.kind = "error" THEN Shown("stop_fetch_error", NoResult)
    ELSE LET table == PrepareData(rev.records, ni.records)
         IN  IF table.kind = "raised" THEN Shown("exception", NoResult) ELSE Shown("table", table)

\* what the two requests of a run may lead to
FetchOutcomes == {FetchBoth(rev, ni) : rev \in RevenueOutcomes, ni \in NetIncomeOutcomes}

\* the run from the point where cik_10 is handed to get_financial_data
FetchAndShow(sess, cik_10, fetched) == Ran(sess, fetched.outcome, {cik_10}, fetched.result)

\* the reset without line 291
KeepSelected(sess) == [sess EXCEPT !.matched_tickers = None]

\* lines 290-291
ResetSession(sess) == [matched_tickers |-> None, selected_ticker |-> None]

\* line 191
StoreMatched(sess, matched) == [sess EXCEPT !.matched_tickers = Some(matched)]

\* the block with line 191 ahead of line 187
SearchCompanyStoresFirst(sess, user_agent, input_company, matched) ==
    IF user_agent = <<>> THEN Ran(sess, "stop_user_agent", {}, NoResult)
    ELSE IF Strip(input_company) = <<>> THEN Ran(sess, "stop_empty_input", {}, NoResult)
    ELSE IF matched.kind = "raised" THEN Ran(sess, "exception", {}, NoResult)
    ELSE IF matched.value = <<>> THEN Ran(StoreMatched(sess, matched.value), "stop_no_matches", {}, NoResult)
    ELSE Ran(StoreMatched(sess, matched.value), "matched", {}, NoResult)

\* lines 177-192: the body of `if st.button("Search (Company)")`
SearchCompanyBlock(sess, user_agent, input_company, matched) ==
    IF user_agent = <<>> THEN Ran(sess, "stop_user_agent", {}, NoResult)
    ELSE IF Strip(input_company) = <<>> THEN Ran(sess, "stop_empty_input", {}, NoResult)
    ELSE IF matched.kind = "raised" THEN Ran(sess, "exception", {}, NoResult)
    ELSE IF matched.value = <<>> THEN Ran(sess, "stop_no_matches", {}, NoResult)
    ELSE Ran(StoreMatched(sess, matched.value), "matched", {}, NoResult)

\* lines 202-291: the body of `if st.button("Search (Ticker)")`
SearchTickerBlock(sess, cik, fetched) ==
    IF ~Truthy(sess.selected_ticker) THEN Ran(sess, "stop_no_ticker", {}, NoResult)
    ELSE IF cik.kind = "raised" THEN Ran(sess, "exception", {}, NoResult)
    ELSE IF cik.value = <<>> THEN Ran(sess, "stop_no_cik", {}, NoResult)
    ELSE LET f == FetchAndShow(sess, cik.value, fetched)
         IN  IF f.outcome = "table" THEN Ran(ResetSession(sess), "table", f.handed, f.result) ELSE f

\* lines 298-359: the body of `if st.button("Search")` in Ticker mode
TickerModeBlock(sess, user_agent, input_ticker, cik, fetched) ==
    IF user_agent = <<>> THEN Ran(sess, "stop_user_agent", {}, NoResult)
    ELSE IF Strip(input_ticker) = <<>> THEN Ran(sess, "stop_empty_input", {}, NoResult)
    ELSE IF cik.kind = "raised" THEN Ran(sess, "exception", {}, NoResult)
    ELSE IF cik.value = <<>> THEN Ran(sess, "stop_no_cik", {}, NoResult)
    ELSE FetchAndShow(sess, cik.value, fetched)

\* lines 392-398
CikFromInput(input_cik) ==
    LET c == Strip(input_cik)
    IN  IF StartsWith(c, CikPrefix) THEN c ELSE CikPrefix \o ZFill(c, CikWidth)

\* lines 389-448: the body of `if st.button("Search")` in CIK mode
CikModeBlock(sess, user_agent, input_cik, fetched) ==
    IF user_agent = <<>> THEN Ran(sess, "stop_user_agent", {}, NoResult)
    ELSE IF Strip(input_cik) = <<>> THEN Ran(sess, "stop_empty_input", {}, NoResult)
    ELSE FetchAndShow(sess, CikFromInput(input_cik), fetched)

\* the value st.selectbox returns: the user's pick, else the choice the widget
\* kept from the last run, else (a widget not rendered then, or rendered with
\* other options) the first option
SelectboxIndex(options, pick) ==
    IF ui.options # options THEN 1
    ELSE IF pick # 0 THEN pick
    ELSE ui.index

Page(sess, shown, options, index) == [session |-> sess, shown |-> shown, options |-> options, index |-> index]

\* lines 195-201: the selectbox and the second button, rendered only while
\* matched_tickers is truthy; the selectbox value is stored on every such run
RenderStep2(sess, pick) ==
    IF Truthy(sess.matched_tickers)
    THEN LET options == sess.matched_tickers.val
             index == SelectboxIndex(options, pick)
         IN  Page([sess EXCEPT !.selected_ticker = Some(options[index])],
                  {"Search (Company)", "Search (Ticker)"}, options, index)
    ELSE Page(sess, {"Search (Company)"}, <<>>, 0)

Rendered(mode, page) == [mode |-> mode, shown |-> page.shown, options |-> page.options, index |-> page.index]

RunRecord(action, ran) == [action |-> action, outcome |-> ran.outcome, handed |-> ran.handed]

\* the first run of the script: lines 148-151, Company Name mode, no button
InitApp ==
    /\ pc = "app"
    /\ request = [op |-> "app"]
    /\ result = NoResult
    /\ session = FreshSession
    /\ ui = Rendered("Company Name", RenderStep2(FreshSession, 0))
    /\ run = [action |-> "load", outcome |-> "rerun", handed |-> {}]

\* a run with no button pressed: the mode or a text input was changed
Rerun ==
    /\ pc = "app"
    /\ \E mode \in Modes :
        LET page == IF mode = "Company Name" THEN RenderStep2(session, 0)
                    ELSE Page(session, {"Search"}, <<>>, 0)
        IN  /\ session' = page.session
            /\ ui' = Rendered(mode, page)
            /\ run' = RunRecord("rerun", Ran(session, "rerun", {}, NoResult))
    /\ result' = NoResult
    /\ UNCHANGED <<pc, request>>

\* another option of "Matched Tickers" is picked
SelectTicker ==
    /\ pc = "app"
    /\ ui.mode = "Company Name"
    /\ \E pick \in DOMAIN ui.options :
        LET page == RenderStep2(session, pick)
        IN  /\ session' = page.session
            /\ ui' = Rendered(ui.mode, page)
            /\ run' = RunRecord("select", Ran(session, "rerun", {}, NoResult))
    /\ result' = NoResult
    /\ UNCHANGED <<pc, request>>

\* "Search (Company)" is pressed: lines 176-192, then lines 195-201 unless stopped
SearchCompany ==
    /\ pc = "app"
    /\ ui.mode = "Company Name"
    /\ "Search (Company)" \in ui.shown
    /\ \E user_agent \in UserAgents, input_company \in CompanyNames :
        \E matched \in TickerLookups[input_company] :
            LET ran == SearchCompanyBlock(session, user_agent, input_company, matched)
                page == IF ran.outcome = "matched" THEN RenderStep2(ran.session, 0)
                        ELSE Page(ran.session, {"Search (Company)"}, <<>>, 0)
            IN  /\ session' = page.session
                /\ ui' = Rendered(ui.mode, page)
                /\ run' = RunRecord("Search (Company)", ran)
                /\ result' = ran.result
    /\ UNCHANGED <<pc, request>>

\* "Search (Ticker)" is pressed: lines 195-291
SearchTicker ==
    /\ pc = "app"
    /\ ui.mode = "Company Name"
    /\ "Search (Ticker)" \in ui.shown
    /\ LET page == RenderStep2(session, 0)
       IN  IF page.options = <<>>
           THEN /\ session' = page.session
                /\ ui' = Rendered(ui.mode, page)
                /\ run' = RunRecord("rerun", Ran(session, "rerun", {}, NoResult))
                /\ result' = NoResult
           ELSE \E cik \in CikLookups[page.session.selected_ticker.val], fetched \in FetchOutcomes :
                    LET ran == SearchTickerBlock(page.session, cik, fetched)
                    IN  /\ session' = ran.session
                        /\ ui' = Rendered(ui.mode, page)
                        /\ run' = RunRecord("Search (Ticker)", ran)
                        /\ result' = ran.result
    /\ UNCHANGED <<pc, request>>

\* "Search" is pressed in Ticker mode: lines 297-359
SearchByTicker ==
    /\ pc = "app"
    /\ ui.mode = "Ticker"
    /\ "Search" \in ui.shown
    /\ \E user_agent \in UserAgents, input_ticker \in TickerInputs :
        \E cik \in CikLookups[input_ticker], fetched \in FetchOutcomes :
            LET ran == TickerModeBlock(session, user_agent, input_ticker, cik, fetched)
            IN  /\ session' = ran.session
                /\ run' = RunRecord("Search", ran)
                /\ result' = ran.result
    /\ UNCHANGED <<pc, request, ui>>

\* "Search" is pressed in CIK mode: lines 388-448
SearchByCik ==
    /\ pc = "app"
    /\ ui.mode = "CIK"
    /\ "Search" \in ui.shown
    /\ \E user_agent \in UserAgents, input_cik \in CikInputs :
        \E fetched \in FetchOutcomes :
            LET ran == CikModeBlock(session, user_agent, input_cik, fetched)
            IN  /\ session' = ran.session
                /\ run' = RunRecord("Search", ran)
                /\ result' = ran.result
    /\ UNCHANGED <<pc, request, ui>>

NextApp == Rerun \/ SelectTicker \/ SearchCompany \/ SearchTicker \/ SearchByTicker \/ SearchByCik

SpecApp == InitApp /\ [][NextApp]_vars

(***************************************************************************)
(* Statements about the script.                                            *)
(***************************************************************************)
IsCik10(id) ==
    /\ Len(id) = 13
    /\ SubSeq(id, 1, 3) = <<"C", "I", "K">>
    /\ \A i \in 4..13 : id[i] \in {"0", "1", "2", "3", "4", "5", "6", "7", "8", "9"}

\* C4 as stated: in every lookup mode, every identifier handed to
\* get_financial_data is "CIK" followed by exactly 10 decimal digits.
C4_IdentifierFormat == \A id \in run.handed : IsCik10(id)

\* The part of C4 that the code keeps: the identifiers that get_cik_from_ticker
\* makes (Company Name and Ticker mode) have the format.
TickerModesHandCik10 == ui.mode # "CIK" => \A id \in run.handed : IsCik10(id)

TickerModesHandCik10_Witness == ui.mode = "Ticker" /\ run.outcome = "table" /\ run.handed # {}

Cleared == session.matched_tickers = None /\ session.selected_ticker = None

\* C9 as stated: after every fetch cycle started by "Search (Ticker)", whether
\* it ended with a table or failed, matched_tickers and selected_ticker are None.
C9_ResetAfterCycle == run.action = "Search (Ticker)" => Cleared

\* C9 as amended: a fetch cycle started by "Search (Ticker)" that ends with a
\* rendered table leaves matched_tickers and selected_ticker None; one that
\* fails (no identifier for the ticker, a fetch error) leaves both as they were
\* before it, the ticker list still stored.
C9_ResetAfterTable ==
    [][run'.action = "Search (Ticker)" =>
         IF run'.outcome = "table"
         THEN session'.matched_tickers = None /\ session'.selected_ticker = None
         ELSE session' = session /\ Truthy(session'.matched_tickers)]_vars

C9_Witness == run.action = "Search (Ticker)" /\ run.outcome = "table" /\ Cleared

\* C10: an action that fails (no User-Agent, an empty input, a name search with
\* no match or no snapshot, a ticker with no identifier, a fetch error; an
\* uncaught exception too) leaves matched_tickers and selected_ticker as they
\* were before it; a failed name search keeps the list stored before.
C10_FailureKeepsState ==
    [][run'.outcome \in Stopped \cup {"exception"} => session' = session]_vars

C10_Witness ==
    /\ run.action = "Search (Company)"
    /\ run.outcome = "stop_no_matches"
    /\ Truthy(session.matched_tickers)
    /\ Truthy(session.selected_ticker)

====
